---- MODULE Spec2Model ----
(***************************************************************************)
(* Model of the playwright-docker server (src/index.js): an Express app    *)
(* with POST /auth/set-cookies, POST /run (modes smoke, tiktok.check,      *)
(* tiktok.debugSelectors, tiktok.fetchComments, tiktok.reply) and          *)
(* GET /health, a Supabase table tiktok_sessions, and one Playwright       *)
(* browser per request.  A handler is a chain of steps separated by its    *)
(* awaits; each step is one action.  The store, the browser and the page   *)
(* are the environment: their outcomes are chosen nondeterministically.    *)
(***************************************************************************)
EXTENDS Integers, Sequences, FiniteSets, TLC

\* ------------------------------------------------------------------ bounds
\* the largest number of elements a probed selector matches on a page
MaxItems == 2
\* cap on the rows of tiktok_sessions (never binding while upserts replace)
MaxRows == 3
\* the longest mixed cookie array handed to the translator
MaxLen == 3

\* --------------------------------------------------------------- JS values
Undefined == "<undefined>"
Null == "<null>"

\* values of other types that a JSON body can put where a string is expected
True == "<true>"
False == "<false>"
Zero == "<number 0>"
Seven == "<number 7>"

\* JS truthiness
Falsy(v) == v \in {Undefined, Null, "", False, Zero}

\* !!v
ToBoolean(v) == ~Falsy(v)

\* typeof v === 'string'
IsString(v) == v \notin {Undefined, Null, True, False, Zero, Seven}

\* String(v)
ToStr(v) ==
  CASE v = Undefined -> "undefined"
    [] v = Null -> "null"
    [] v = True -> "true"
    [] v = False -> "false"
    [] v = Zero -> "0"
    [] v = Seven -> "7"
    [] OTHER -> v

\* a ?? b on such values
CoalesceV(a, b) == IF a \in {Undefined, Null} THEN b ELSE a

\* a || b
Or(a, b) == IF Falsy(a) THEN b ELSE a

\* a = b  in a destructuring or parameter default: only undefined is replaced
Default(a, b) == IF a = Undefined THEN b ELSE a

\* String.prototype.toLowerCase on the strings the model draws
ToLowerCase(s) ==
  CASE s = "TikTok" -> "tiktok"
    [] s = "TIKTOK" -> "tiktok"
    [] s = "Lax" -> "lax"
    [] s = "LAX" -> "lax"
    [] s = "Strict" -> "strict"
    [] s = "None" -> "none"
    [] s = "NO_RESTRICTION" -> "no_restriction"
    [] OTHER -> s

\* ------------------------------------------------------------------ config
\* const TTK_PLATFORM = (process.env.TTK_PLATFORM || 'tiktok').toLowerCase()
EnvPlatform == Undefined
TTK_PLATFORM == ToLowerCase(Or(EnvPlatform, "tiktok"))
TTK_BASE_URL == "https://www.tiktok.com/"

\* ----------------------------------------------------------------- numbers
\* A JS value in a numeric field: undefined, null, NaN, Infinity, or a finite
\* number of magnitude q * 1000 + r (+ 1/2 when half), negative when neg.
\* Epoch milliseconds exceed 32 bits, so the thousands are kept apart.
NumUndefined == [k |-> "undefined", neg |-> FALSE, q |-> 0, r |-> 0, half |-> FALSE]
NumNull == [NumUndefined EXCEPT !.k = "null"]
NaN == [NumUndefined EXCEPT !.k = "nan"]
Infinity == [NumUndefined EXCEPT !.k = "inf"]
Num(q, r) == [k |-> "num", neg |-> FALSE, q |-> q, r |-> r, half |-> FALSE]
Neg(x) == [x EXCEPT !.neg = TRUE]
PlusHalf(x) == [x EXCEPT !.half = TRUE]

\* Number(v): undefined gives NaN, null gives 0
Number(v) ==
  CASE v.k = "undefined" -> NaN
    [] v.k = "null" -> Num(0, 0)
    [] OTHER -> v

\* a ?? b
Coalesce(a, b) == IF a.k \in {"undefined", "null"} THEN b ELSE a

IsFinite(x) == x.k = "num"
IsPositive(x) == x.k \in {"num", "inf"} /\ ~x.neg /\ (x.k = "inf" \/ x.q > 0 \/ x.r > 0 \/ x.half)

\* 1e12 / 1000
E12Thousands == 1000000000

\* a threshold test that also takes exactly 1e12 for milliseconds
Above1e12_Inclusive(x) == x.q >= E12Thousands

\* x > 1e12, for a positive finite x
Above1e12(x) ==
  x.q > E12Thousands \/ (x.q = E12Thousands /\ (x.r > 0 \/ x.half))

\* Math.floor(x / 1000) and Math.floor(x), for a positive finite x
FloorDiv1000(x) == Num(x.q \div 1000, x.q % 1000)
Floor(x) == Num(x.q, x.r)

\* ----------------------------------------------------------------- cookies
\* One entry of a Cookie-Editor export.  isNull marks a null array element;
\* a field the entry does not have reads as Undefined.
Entry(n, v, ss, sec, ed, ey) ==
  [isNull |-> FALSE, name |-> n, value |-> v, httpOnly |-> Undefined,
   secure |-> sec, sameSite |-> ss, expirationDate |-> ed, expiry |-> ey,
   domain |-> Undefined, path |-> Undefined]
NullEntry ==
  [isNull |-> TRUE, name |-> Undefined, value |-> Undefined, httpOnly |-> Undefined,
   secure |-> Undefined, sameSite |-> Undefined, expirationDate |-> NumUndefined,
   expiry |-> NumUndefined, domain |-> Undefined, path |-> Undefined]

\* a mapping that compares without lowercasing
mapSameSite_CaseSensitive(v) ==
  IF v = Undefined \/ v = Null THEN Undefined
  ELSE LET s == ToStr(v) IN
       CASE s = "lax" -> "Lax"
         [] s = "strict" -> "Strict"
         [] s = "no_restriction" \/ s = "none" -> "None"
         [] OTHER -> Undefined

mapSameSite(v) ==
  IF v = Undefined \/ v = Null THEN Undefined
  ELSE LET s == ToLowerCase(ToStr(v)) IN
       CASE s = "lax" -> "Lax"
         [] s = "strict" -> "Strict"
         [] s = "no_restriction" \/ s = "none" -> "None"
         [] OTHER -> Undefined

\* a filter that also drops a null value
KeepEntry_DropsNullValue(c) ==
  /\ ~c.isNull
  /\ IsString(c.name)
  /\ c.name # ""
  /\ c.value \notin {Undefined, Null}

KeepEntry(c) ==
  /\ ~c.isNull
  /\ IsString(c.name)
  /\ c.name # ""
  /\ c.value # Undefined

\* the value out.expires is given, NumUndefined when the field is not set
Expires(c) ==
  LET exp == Number(Coalesce(c.expirationDate, c.expiry)) IN
  IF IsFinite(exp) /\ IsPositive(exp)
  THEN Floor(IF Above1e12(exp) THEN FloorDiv1000(exp) ELSE exp)
  ELSE NumUndefined

\* out.f = v
SetField(out, f, v) ==
  [g \in DOMAIN out \cup {f} |-> IF g = f THEN v ELSE out[g]]

\* an object literal that copies the entry's domain and path
OutLiteral_WithDomain(c) ==
  [name |-> ToStr(c.name),
   value |-> ToStr(CoalesceV(c.value, "")),
   url |-> TTK_BASE_URL,
   httpOnly |-> ToBoolean(c.httpOnly),
   secure |-> ToBoolean(c.secure),
   domain |-> c.domain,
   path |-> c.path]

\* const out = { name, value, url, httpOnly, secure }
OutLiteral(c) ==
  [name |-> ToStr(c.name),
   value |-> ToStr(CoalesceV(c.value, "")),
   url |-> TTK_BASE_URL,
   httpOnly |-> ToBoolean(c.httpOnly),
   secure |-> ToBoolean(c.secure)]

\* a rule that leaves secure as the entry gave it
ForceSecure_Never(out, ss) == out

\* if (ss === 'None') out.secure = true
ForceSecure(out, ss) ==
  IF ss = "None" THEN SetField(out, "secure", TRUE) ELSE out

\* the .map callback: sameSite and expires are set only under their tests
MapEntry(c) ==
  LET ss == mapSameSite(c.sameSite)
      out == OutLiteral(c)
      out1 == IF ~Falsy(ss) THEN SetField(out, "sameSite", ss) ELSE out
      out2 == ForceSecure(out1, ss)
      exp == Expires(c)
  IN IF exp # NumUndefined THEN SetField(out2, "expires", exp) ELSE out2

RECURSIVE toPlaywrightCookiesStrict(_)
toPlaywrightCookiesStrict(raw) ==
  IF raw = <<>> THEN <<>>
  ELSE LET rest == toPlaywrightCookiesStrict(Tail(raw)) IN
       IF KeepEntry(Head(raw)) THEN <<MapEntry(Head(raw))>> \o rest ELSE rest

\* the cookie arrays a client posts
CookiesEmpty == <<>>
CookiesMixed ==
  <<NullEntry, Entry("", "x", Undefined, False, NumUndefined, NumUndefined),
    Entry("ttwid", Null, "no_restriction", False, Num(1999999999, 0), NumUndefined),
    Entry("sid_tt", "s", "bogus", False, NumNull, Num(1700000, 500))>>
CookieArrays == {CookiesEmpty, CookiesMixed}
\* req.body.cookies: an array, or anything else (missing, a string, an object)
ArrayOf(list) == [isArray |-> TRUE, items |-> list]
NotArray == [isArray |-> FALSE, items |-> <<>>]

\* (list.map(c => c.name)) throws a TypeError on a null element
MapNamesThrows(list) == \E k \in 1..Len(list) : list[k].isNull
Names(list) == {list[k].name : k \in 1..Len(list)}

\* ------------------------------------------------------------------- state
VARIABLES
  hasSupabase,   \* SUPABASE_URL && SUPABASE_SERVICE_ROLE_KEY (supabase # null)
  TTK_ACCOUNT,   \* process.env.TTK_ACCOUNT || ''
  store,         \* table tiktok_sessions: rows in ascending id
  nextId,        \* the id the table gives its next inserted row
  lastWrite,     \* history: per key, the row of the last successful upsert
  replaced,      \* history: what the key of this request's upsert held before
  pc,            \* position of the request in flight in its handler
  req,           \* the request in flight
  session,       \* the record loadSession returned
  cookiesPW,     \* the translated cookies
  ci,            \* loop index of the cookie injection
  injected,      \* names of the cookies the context accepted
  browser,       \* "none" | "open" | "closed": the browser this request launched
  page,          \* match counts of the candidate selectors on the loaded page
  sels,          \* result of discoverSelectors
  clicked,       \* tiktokReply's flag: the reply control was clicked
  probes,        \* history: what the two visibility probes of tiktok.check saw
  typed,         \* history: the reply text reached the input / Enter was sent
  pageOps,       \* history: kinds of operations attempted on the page
  effects,       \* history: store reads, store writes and launches of the request
  resp,          \* responses sent for the request in flight
  probed,        \* history: per target, the candidates discoverSelectors probed, in order
  reads,         \* history: the item count and the sub-field reads of tiktok.fetchComments
  parked         \* the locals of a second handler invocation, suspended at an await

vars ==
  <<hasSupabase, TTK_ACCOUNT, store, nextId, lastWrite, pc, req, session,
    cookiesPW, ci, injected, browser, page, sels, clicked, probes, typed,
    pageOps, effects, replaced, resp, probed, reads, parked>>

config == <<hasSupabase, TTK_ACCOUNT>>
db == <<store, nextId, lastWrite>>
local ==
  <<session, cookiesPW, ci, injected, browser, page, sels, clicked, probes, typed,
    replaced>>

\* ------------------------------------------------------------------- store
Key(p, a) == <<p, a>>
RowKey(row) == Key(row.platform, row.account)
RowIndex(rows, k) == {n \in 1..Len(rows) : RowKey(rows[n]) = k}

\* an upsert that merges: a null user_agent leaves the stored one in place
Upsert_KeepsUserAgent(rows, row, id) ==
  IF RowIndex(rows, RowKey(row)) # {}
  THEN [n \in 1..Len(rows) |->
          IF RowKey(rows[n]) = RowKey(row)
          THEN [row EXCEPT !.id = rows[n].id,
                           !.user_agent = IF row.user_agent = Null
                                          THEN rows[n].user_agent
                                          ELSE row.user_agent]
          ELSE rows[n]]
  ELSE Append(rows, [row EXCEPT !.id = id])

\* supabase.from('tiktok_sessions').upsert(row, {onConflict: 'platform,account'}):
\* the row with the same (platform, account) takes every column of the new
\* row and keeps its id; without one the row is inserted.
\* an upsert that leaves the table with the written row only
Upsert_ReplacesTable(rows, row, id) == <<[row EXCEPT !.id = id]>>

Upsert(rows, row, id) ==
  IF RowIndex(rows, RowKey(row)) # {}
  THEN [n \in 1..Len(rows) |->
          IF RowKey(rows[n]) = RowKey(row)
          THEN [row EXCEPT !.id = rows[n].id] ELSE rows[n]]
  ELSE Append(rows, [row EXCEPT !.id = id])

\* .select('cookies,user_agent').eq(platform).eq(account)
\*   .order('id', {ascending: false}).limit(1)
Select(rows, p, a) ==
  LET hits == RowIndex(rows, Key(p, a)) IN
  IF hits = {} THEN <<>>
  ELSE LET n == CHOOSE m \in hits : \A o \in hits : rows[o].id <= rows[m].id
       IN <<[cookies |-> rows[n].cookies, user_agent |-> rows[n].user_agent]>>

\* what the store answers a query: {data, error}
StoreData(d) == [data |-> d, error |-> FALSE]
StoreError == [data |-> <<>>, error |-> TRUE]

\* loadSession's outcome: null (found = FALSE), a record, or a throw
NoSession == [threw |-> "", found |-> FALSE, cookies |-> <<>>, user_agent |-> Null]
Threw(m) == [NoSession EXCEPT !.threw = m]

\* a loadSession that throws when no row matches (as a .single() query does)
loadSession_ThrowsOnMiss(configured, reply) ==
  IF ~configured THEN Threw("Supabase not configured")
  ELSE IF reply.error THEN Threw("store error")
  ELSE IF reply.data = <<>> THEN Threw("no rows returned")
  ELSE [threw |-> "", found |-> TRUE, cookies |-> reply.data[1].cookies,
        user_agent |-> reply.data[1].user_agent]

\* loadSession, given whether the client exists and the store's answer:
\*   if (!supabase) throw ...; if (error) throw error; return data?.[0] || null
loadSession(configured, reply) ==
  IF ~configured THEN Threw("Supabase not configured")
  ELSE IF reply.error THEN Threw("store error")
  ELSE IF reply.data = <<>> THEN NoSession
  ELSE [threw |-> "", found |-> TRUE, cookies |-> reply.data[1].cookies,
        user_agent |-> reply.data[1].user_agent]

\* --------------------------------------------------------------- responses
NoBody ==
  [mode |-> Undefined, platform |-> Undefined, account |-> Undefined,
   cookies |-> NotArray, user_agent |-> Undefined, videoUrl |-> Undefined,
   replyText |-> Undefined, commentIndex |-> <<>>, limit |-> <<>>]
NoReq == [endpoint |-> "none", ua_header |-> Undefined, body |-> NoBody]

Err(m) == [msg |-> m, name |-> "", idx |-> <<>>]

\* res.status(s).json(b)
Json(s, b) == [status |-> s, json |-> TRUE, body |-> b]
Fail(s, e) == Json(s, [ok |-> FALSE, error |-> e])

NoPage == [item |-> <<>>, user |-> <<>>, text |-> <<>>, reply |-> <<>>, btn |-> 0]
NoSels == [item |-> Null, user |-> Null, text |-> Null, reply |-> Null]
NoProbes == [avatar |-> FALSE, loginBtn |-> FALSE]
NoProbed == [item |-> <<>>, user |-> <<>>, text |-> <<>>, reply |-> <<>>]
NoReads == [total |-> 0, rows |-> <<>>]

\* the locals of the handler invocation that is running
Running ==
  [pc |-> pc, req |-> req, session |-> session, cookiesPW |-> cookiesPW,
   ci |-> ci, injected |-> injected, browser |-> browser, page |-> page,
   sels |-> sels, clicked |-> clicked, probes |-> probes, typed |-> typed,
   pageOps |-> pageOps, effects |-> effects, replaced |-> replaced, resp |-> resp,
   probed |-> probed, reads |-> reads]
\* the locals of an invocation that has not started
IdleContext ==
  [pc |-> "idle", req |-> NoReq, session |-> NoSession, cookiesPW |-> <<>>,
   ci |-> 0, injected |-> {}, browser |-> "none", page |-> NoPage,
   sels |-> NoSels, clicked |-> FALSE, probes |-> NoProbes, typed |-> {},
   pageOps |-> {}, effects |-> {}, replaced |-> NoSession, resp |-> <<>>,
   probed |-> NoProbed, reads |-> NoReads]

\* the handler's promise settles after sending r
Finish(r) ==
  /\ resp' = Append(resp, r)
  /\ pc' = "done"

Init ==
  /\ hasSupabase \in BOOLEAN
  /\ TTK_ACCOUNT \in {"", "alice"}
  /\ store = <<>>
  /\ nextId = 1
  /\ lastWrite = [k \in {} |-> 0]
  /\ pc = "idle"
  /\ req = NoReq
  /\ session = NoSession
  /\ cookiesPW = <<>>
  /\ ci = 0
  /\ injected = {}
  /\ browser = "none"
  /\ page = NoPage
  /\ sels = NoSels
  /\ clicked = FALSE
  /\ probes = NoProbes
  /\ typed = {}
  /\ pageOps = {}
  /\ effects = {}
  /\ replaced = NoSession
  /\ resp = <<>>
  /\ probed = NoProbed
  /\ reads = NoReads
  /\ parked = IdleContext

\* ---------------------------------------------------------------- requests
Platforms == {Undefined, "TikTok"}
Accounts == {Undefined, "bob"}

\* a request arrives; the handler's locals start fresh
Arrive(r) ==
  /\ pc = "idle"
  /\ req' = r
  /\ session' = NoSession
  /\ cookiesPW' = <<>>
  /\ ci' = 0
  /\ injected' = {}
  /\ browser' = "none"
  /\ page' = NoPage
  /\ sels' = NoSels
  /\ clicked' = FALSE
  /\ probes' = NoProbes
  /\ typed' = {}
  /\ pageOps' = {}
  /\ effects' = {}
  /\ replaced' = NoSession
  /\ resp' = <<>>
  /\ probed' = NoProbed
  /\ reads' = NoReads
  /\ UNCHANGED <<config, parked, db>>

PostSetCookies ==
  \E p \in Platforms, a \in Accounts,
     c \in {NotArray} \cup {ArrayOf(l) : l \in CookieArrays},
     ua \in {Undefined, "UA"}, h \in {Undefined, "UA"} :
    /\ Arrive([endpoint |-> "/auth/set-cookies", ua_header |-> h,
               body |-> [NoBody EXCEPT !.platform = p, !.account = a,
                                       !.cookies = c, !.user_agent = ua]])
    /\ pc' = "set_cookies"

\* the exchange is over (the response went out, or the client gave up waiting)
Over ==
  /\ pc = "done"
  /\ pc' = "idle"
  /\ req' = NoReq
  /\ session' = NoSession
  /\ cookiesPW' = <<>>
  /\ ci' = 0
  /\ injected' = {}
  /\ browser' = "none"
  /\ page' = NoPage
  /\ sels' = NoSels
  /\ clicked' = FALSE
  /\ probes' = NoProbes
  /\ typed' = {}
  /\ pageOps' = {}
  /\ effects' = {}
  /\ replaced' = NoSession
  /\ resp' = <<>>
  /\ probed' = NoProbed
  /\ reads' = NoReads
  /\ UNCHANGED <<config, parked, db>>

GetHealth ==
  /\ Arrive([NoReq EXCEPT !.endpoint = "/health"])
  /\ pc' = "health"

\* app.get('/health'): res.status(200).send('ok')
Health ==
  /\ pc = "health"
  /\ Finish([status |-> 200, json |-> FALSE, body |-> "ok"])
  /\ UNCHANGED <<config, parked, probed, reads, db, req, local, pageOps, effects>>

\* ------------------------------------------------------- /auth/set-cookies
ReqPlatformLower == ToLowerCase(Or(req.body.platform, Or(TTK_PLATFORM, "tiktok")))
ReqAccountOr == Or(req.body.account, TTK_ACCOUNT)

\* cookieFlags(cookies)
cookieFlags(list) ==
  [has_sessionid |-> "sessionid" \in Names(list),
   has_sid_tt |-> "sid_tt" \in Names(list),
   has_ttwid |-> "ttwid" \in Names(list)]

\* the handler up to its await of the store's upsert
\* a handler that asks the store without looking at the configuration
SetCookies_NoConfigTest ==
  /\ pc = "set_cookies"
  /\ IF ~req.body.cookies.isArray
       THEN Finish(Fail(400, Err("Body must include cookies"))) /\ UNCHANGED effects
     ELSE IF Falsy(ReqAccountOr)
       THEN Finish(Fail(400, Err("Missing account"))) /\ UNCHANGED effects
     ELSE /\ pc' = "set_cookies_upsert"
          /\ effects' = effects \cup {"store_write"}
          /\ UNCHANGED resp
  /\ UNCHANGED <<config, parked, probed, reads, db, req, local, pageOps>>

SetCookies ==
  /\ pc = "set_cookies"
  /\ IF ~req.body.cookies.isArray
       THEN Finish(Fail(400, Err("Body must include cookies"))) /\ UNCHANGED effects
     ELSE IF Falsy(ReqAccountOr)
       THEN Finish(Fail(400, Err("Missing account"))) /\ UNCHANGED effects
     ELSE IF ~hasSupabase
       THEN Finish(Fail(500, Err("Supabase not configured"))) /\ UNCHANGED effects
     ELSE /\ pc' = "set_cookies_upsert"
          /\ effects' = effects \cup {"store_write"}
          /\ UNCHANGED resp
  /\ UNCHANGED <<config, parked, probed, reads, db, req, local, pageOps>>

\* upsertSession's row
UpsertRow ==
  [id |-> 0, platform |-> ReqPlatformLower, account |-> ReqAccountOr,
   cookies |-> req.body.cookies.items,
   user_agent |-> Or(Or(req.body.user_agent, Or(req.ua_header, Null)), Null)]

\* the store answers the upsert; the handler answers the client
SetCookiesUpserted ==
  /\ pc = "set_cookies_upsert"
  /\ \/ /\ Len(store) < MaxRows
        /\ store' = Upsert(store, UpsertRow, nextId)
        /\ replaced' =
             loadSession(TRUE,
               StoreData(Select(store, UpsertRow.platform, UpsertRow.account)))
        /\ nextId' = IF Len(store') > Len(store) THEN nextId + 1 ELSE nextId
        /\ lastWrite' =
             [k \in DOMAIN lastWrite \cup {RowKey(UpsertRow)} |->
                IF k = RowKey(UpsertRow) THEN UpsertRow ELSE lastWrite[k]]
        /\ IF MapNamesThrows(req.body.cookies.items)
             THEN Finish(Fail(500, Err("TypeError")))
             ELSE Finish(Json(200,
                    [ok |-> TRUE, platform |-> ReqPlatformLower,
                     account |-> ReqAccountOr,
                     saved |-> Len(req.body.cookies.items),
                     flags |-> cookieFlags(req.body.cookies.items)]))
     \/ /\ Finish(Fail(500, Err("store error")))
        /\ UNCHANGED <<db, replaced>>
  /\ UNCHANGED <<config, parked, probed, reads,
                 req, session, cookiesPW, ci, injected, browser, page, sels,
                 clicked, probes, typed, pageOps, effects>>

\* -------------------------------------------------------------- POST /run
\* a handler's promise rejects with nobody to catch it: Express 4 sends
\* nothing, Express 5 hands the error to its default handler (a 500 page)
Reject ==
  /\ pc' = "done"
  /\ \E answered \in BOOLEAN :
       resp' = IF answered
               THEN Append(resp, [status |-> 500, json |-> FALSE,
                                  body |-> "Internal Server Error"])
               ELSE resp

ReqMode == Or(req.body.mode, "smoke")

VideoUrls == {Undefined, "https://www.tiktok.com/@u/video/1"}
ReplyTexts == {Undefined, "hi"}
Limits == {<<>>, <<1>>}
CommentIndexes == {<<>>, <<-1>>, <<1>>, <<MaxItems>>}

PostRun ==
  \/ \E m \in {Undefined, "smoke", "other"} :
       /\ Arrive([NoReq EXCEPT !.endpoint = "/run", !.body.mode = m])
       /\ pc' = "run"
  \/ \E p \in Platforms, a \in Accounts :
       /\ Arrive([NoReq EXCEPT !.endpoint = "/run", !.body.mode = "tiktok.check",
                               !.body.platform = p, !.body.account = a])
       /\ pc' = "run"
  \/ \E p \in Platforms, a \in Accounts, v \in VideoUrls :
       /\ Arrive([NoReq EXCEPT !.endpoint = "/run",
                               !.body.mode = "tiktok.debugSelectors",
                               !.body.platform = p, !.body.account = a,
                               !.body.videoUrl = v])
       /\ pc' = "run"
  \/ \E p \in Platforms, a \in Accounts, v \in VideoUrls, l \in Limits :
       /\ Arrive([NoReq EXCEPT !.endpoint = "/run",
                               !.body.mode = "tiktok.fetchComments",
                               !.body.platform = p, !.body.account = a,
                               !.body.videoUrl = v, !.body.limit = l])
       /\ pc' = "run"
  \/ \E p \in Platforms, a \in Accounts, v \in VideoUrls, t \in ReplyTexts,
        n \in CommentIndexes :
       /\ Arrive([NoReq EXCEPT !.endpoint = "/run", !.body.mode = "tiktok.reply",
                               !.body.platform = p, !.body.account = a,
                               !.body.videoUrl = v, !.body.replyText = t,
                               !.body.commentIndex = n])
       /\ pc' = "run"

\* app.post('/run'): dispatch on the mode
Run ==
  /\ pc = "run"
  /\ CASE ReqMode = "smoke" -> pc' = "smoke" /\ UNCHANGED resp
       [] ReqMode = "tiktok.check" -> pc' = "check" /\ UNCHANGED resp
       [] ReqMode = "tiktok.debugSelectors" -> pc' = "debug" /\ UNCHANGED resp
       [] ReqMode = "tiktok.fetchComments" -> pc' = "fetch" /\ UNCHANGED resp
       [] ReqMode = "tiktok.reply" -> pc' = "reply" /\ UNCHANGED resp
       [] OTHER -> Finish(Json(200, [ok |-> TRUE, mode |-> ReqMode]))
  /\ UNCHANGED <<config, parked, probed, reads, db, req, local, pageOps, effects>>

\* ------------------------------------------------------------------- smoke
\* chromium.launch
SmokeLaunch ==
  /\ pc = "smoke"
  /\ effects' = effects \cup {"launch"}
  /\ \/ browser' = "open" /\ pc' = "smoke_context" /\ UNCHANGED resp
     \/ Reject /\ UNCHANGED browser
  /\ UNCHANGED <<config, parked, probed, reads,
                 db, req, session, cookiesPW, ci, injected, page, sels,
                 clicked, probes, typed, pageOps, replaced>>

\* browser.newContext, context.newPage
SmokeContext ==
  /\ pc = "smoke_context"
  /\ \/ pc' = "smoke_goto" /\ UNCHANGED resp
     \/ Reject
  /\ UNCHANGED <<config, parked, probed, reads, db, req, local, pageOps, effects>>

\* page.goto(SMOKE_URL)
SmokeGoto ==
  /\ pc = "smoke_goto"
  /\ pageOps' = pageOps \cup {"goto"}
  /\ \/ pc' = "smoke_title" /\ UNCHANGED resp
     \/ Reject
  /\ UNCHANGED <<config, parked, probed, reads, db, req, local, effects>>

\* page.title, page.url, browser.close, res.json
SmokeTitle ==
  /\ pc = "smoke_title"
  /\ pageOps' = pageOps \cup {"query"}
  /\ \/ /\ browser' = "closed"
        /\ Finish(Json(200, [ok |-> TRUE, url |-> "smoke"]))
     \/ Reject /\ UNCHANGED browser
  /\ UNCHANGED <<config, parked, probed, reads,
                 db, req, session, cookiesPW, ci, injected, page, sels,
                 clicked, probes, typed, effects, replaced>>

\* ------------------------------------------------------------ tiktok.check
\* the handler up to its await of loadSession's query
CheckStart ==
  /\ pc = "check"
  /\ IF ~hasSupabase
       THEN Finish(Fail(200, Err("Supabase not configured"))) /\ UNCHANGED effects
     ELSE IF Falsy(ReqAccountOr)
       THEN Finish(Fail(200, Err("Missing account"))) /\ UNCHANGED effects
     ELSE /\ pc' = "check_load"
          /\ effects' = effects \cup {"store_read"}
          /\ UNCHANGED resp
  /\ UNCHANGED <<config, parked, probed, reads, db, req, local, pageOps>>

\* the store answers; a session found is translated and the launch begins
CheckLoaded ==
  /\ pc = "check_load"
  /\ \E reply \in {StoreData(Select(store, ReqPlatformLower, ReqAccountOr)),
                    StoreError} :
       LET s == loadSession(hasSupabase, reply)
           seen == effects \cup (IF reply.error THEN {"store_error"} ELSE {})
       IN /\ session' = s
          /\ IF s.threw # ""
               THEN /\ Finish(Fail(200, Err(s.threw)))
                    /\ effects' = seen
                    /\ UNCHANGED cookiesPW
             ELSE IF ~s.found
               THEN /\ Finish(Fail(200, Err("No session in DB for this account/platform")))
                    /\ effects' = seen
                    /\ UNCHANGED cookiesPW
             ELSE /\ cookiesPW' = toPlaywrightCookiesStrict(s.cookies)
                  /\ effects' = seen \cup {"launch"}
                  /\ pc' = "check_launch"
                  /\ UNCHANGED resp
  /\ UNCHANGED <<config, parked, probed, reads,
                 db, req, ci, injected, browser, page, sels, clicked,
                 probes, typed, pageOps, replaced>>

\* chromium.launch settles
CheckLaunch ==
  /\ pc = "check_launch"
  /\ \/ browser' = "open" /\ pc' = "check_context" /\ UNCHANGED resp
     \/ Finish(Fail(200, Err("launch failed"))) /\ UNCHANGED browser
  /\ UNCHANGED <<config, parked, probed, reads,
                 db, req, session, cookiesPW, ci, injected, page, sels,
                 clicked, probes, typed, pageOps, effects, replaced>>

\* browser.newContext settles
CheckContext ==
  /\ pc = "check_context"
  /\ \/ /\ pc' = IF cookiesPW = <<>> THEN "check_newpage" ELSE "check_cookie"
        /\ UNCHANGED resp
     \/ Finish(Fail(200, Err("newContext failed")))
  /\ UNCHANGED <<config, parked, probed, reads, db, req, local, pageOps, effects>>

\* the error tiktokCheck reports for a rejected cookie: `addCookies: ${e.message}`
CheckCookieError(k) == Err("addCookies: browser message")

\* context.addCookies([cookiesPW[i]]) settles
CheckCookie ==
  /\ pc = "check_cookie"
  /\ \/ /\ injected' = injected \cup {cookiesPW[ci + 1].name}
        /\ ci' = ci + 1
        /\ pc' = IF ci + 1 = Len(cookiesPW) THEN "check_newpage" ELSE "check_cookie"
        /\ UNCHANGED <<resp, browser>>
        /\ UNCHANGED effects
     \/ /\ browser' = "closed"
        /\ Finish(Fail(200, CheckCookieError(ci)))
        /\ effects' = effects \cup {"cookie_rejected"}
        /\ UNCHANGED <<injected, ci>>
  /\ UNCHANGED <<config, parked, probed, reads,
                 db, req, session, cookiesPW, page, sels, clicked, probes,
                 typed, pageOps, replaced>>

\* context.newPage settles
CheckNewPage ==
  /\ pc = "check_newpage"
  /\ \/ pc' = "check_goto" /\ UNCHANGED resp
     \/ Finish(Fail(200, Err("newPage failed")))
  /\ UNCHANGED <<config, parked, probed, reads, db, req, local, pageOps, effects>>

\* page.goto(TTK_BASE_URL) settles
CheckGoto ==
  /\ pc = "check_goto"
  /\ pageOps' = pageOps \cup {"goto"}
  /\ \/ pc' = "check_probe" /\ UNCHANGED resp
     \/ Finish(Fail(200, Err("goto failed")))
  /\ UNCHANGED <<config, parked, probed, reads, db, req, local, effects>>

\* a loggedIn that takes a hidden login button alone as a session
LoggedIn_NoCookieTest(avatar, loginBtn, raw) == avatar \/ ~loginBtn

\* loggedIn from the two visibility probes and the stored cookies' names;
\* a TypeError of the name map is swallowed and leaves loggedIn false
LoggedIn(avatar, loginBtn, raw) ==
  IF MapNamesThrows(raw) THEN FALSE
  ELSE LET hasSess == Names(raw) \cap {"sessionid", "sessionid_ss", "sid_tt"} # {}
       IN avatar \/ (hasSess /\ ~loginBtn)

\* the probes (each isVisible().catch(() => false)), page.title, page.url,
\* browser.close, res.json
CheckProbe ==
  /\ pc = "check_probe"
  /\ pageOps' = pageOps \cup {"query"}
  /\ browser' = "closed"
  /\ \E avatar \in BOOLEAN, loginBtn \in BOOLEAN :
       /\ probes' = [avatar |-> avatar, loginBtn |-> loginBtn]
       /\ Finish(Json(200,
            [ok |-> TRUE, account |-> ReqAccountOr, platform |-> ReqPlatformLower,
             loggedIn |-> LoggedIn(avatar, loginBtn, session.cookies),
             cookiesCount |-> Len(cookiesPW)]))
  /\ UNCHANGED <<config, parked, probed, reads,
                 db, req, session, cookiesPW, ci, injected, page, sels,
                 clicked, typed, effects, replaced>>

\* ------------------------------------------------- the page of a video mode
\* discoverSelectors' candidates, in its order
candidates ==
  [item |-> <<"[data-e2e=\"comment-item\"]", "[data-e2e^=\"comment-item\"]",
              "li[class*=\"CommentItem\"]", "div[class*=\"DivCommentObject\"]">>,
   user |-> <<"[data-e2e=\"comment-username\"]", "[data-e2e^=\"comment-username\"]",
              "[data-e2e=\"comment-user-name\"]", "[data-e2e^=\"comment-user\"]",
              "a[href^=\"/@\"]">>,
   text |-> <<"[data-e2e=\"comment-content\"]", "[data-e2e^=\"comment-text\"]",
              "[data-e2e^=\"comment-level\"]", "span[class*=\"CommentSubContent\"]",
              "p[class*=\"StyledTUXText\"] + span">>,
   reply |-> <<"[data-e2e=\"comment-reply\"]", "button:has-text(\"Repondre\")",
               "button:has-text(\"Reply\")", "a:has-text(\"Repondre\")",
               "a:has-text(\"Reply\")">>]

\* A page gives each candidate the result of locator(sel).count(): a number of
\* matches, or -1 when the probe rejects.  btn is the number of reply controls
\* inside the target item.
EmptyPage ==
  [item |-> <<0, 0, 0, 0>>, user |-> <<0, 0, 0, 0, 0>>, text |-> <<0, 0, 0, 0, 0>>,
   reply |-> <<0, 0, 0, 0, 0>>, btn |-> 0]
FullPage(n) ==
  [item |-> <<n, n, 0, 0>>, user |-> <<n, n, 0, 0, n>>, text |-> <<n, 0, 0, 0, 0>>,
   reply |-> <<0, n, 0, 0, 0>>, btn |-> 1]
PartialPage(n) ==
  [item |-> <<-1, 0, n, n>>, user |-> <<0, 0, 0, -1, 0>>, text |-> <<-1, 0, 0, 0, n>>,
   reply |-> <<0, 0, 0, 0, 0>>, btn |-> 0]
Pages ==
  {EmptyPage} \cup {FullPage(n) : n \in 1..MaxItems}
              \cup {PartialPage(n) : n \in 1..MaxItems}

\* a probe whose rejection counts as a match
CountOr0_FailureMatches(n) == IF n < 0 THEN 1 ELSE n

\* locator(sel).count().catch(() => 0)
CountOr0(n) == IF n < 0 THEN 0 ELSE n

\* pickFirstWorking: the first candidate whose count is positive, or null
RECURSIVE pickFirstWorking(_, _)
pickFirstWorking(list, counts) ==
  IF list = <<>> THEN Null
  ELSE IF CountOr0(Head(counts)) > 0 THEN Head(list)
  ELSE pickFirstWorking(Tail(list), Tail(counts))

\* the candidates pickFirstWorking's loop probes before it returns
RECURSIVE pickFirstWorkingProbes(_, _)
pickFirstWorkingProbes(list, counts) ==
  IF list = <<>> THEN <<>>
  ELSE IF CountOr0(Head(counts)) > 0 THEN <<Head(list)>>
  ELSE <<Head(list)>> \o pickFirstWorkingProbes(Tail(list), Tail(counts))

discoverProbes(pg) ==
  [item |-> pickFirstWorkingProbes(candidates.item, pg.item),
   user |-> pickFirstWorkingProbes(candidates.user, pg.user),
   text |-> pickFirstWorkingProbes(candidates.text, pg.text),
   reply |-> pickFirstWorkingProbes(candidates.reply, pg.reply)]

discoverSelectors(pg) ==
  [item |-> pickFirstWorking(candidates.item, pg.item),
   user |-> pickFirstWorking(candidates.user, pg.user),
   text |-> pickFirstWorking(candidates.text, pg.text),
   reply |-> pickFirstWorking(candidates.reply, pg.reply)]

\* page.locator(sel).count() for a selector discoverSelectors returned
CountOf(pg, target, sel) ==
  LET hits == {k \in 1..Len(candidates[target]) : candidates[target][k] = sel}
  IN IF hits = {} THEN 0 ELSE pg[target][CHOOSE k \in hits : TRUE]

Min(a, b) == IF a <= b THEN a ELSE b

\* closeOverlays: Escape is pressed while an overlay is visible
closeOverlays(ops, overlay) == IF overlay THEN ops \cup {"press:Escape"} ELSE ops

\* --------------------------------------------------- getContextWithSession
\* the key the video modes read: platform and account with their defaults
CtxPlatform == Default(Default(req.body.platform, TTK_PLATFORM), TTK_PLATFORM)
CtxAccount == Default(Default(req.body.account, TTK_ACCOUNT), TTK_ACCOUNT)

\* a video mode up to its await of loadSession's query; every throw from here
\* on lands in the mode's catch:  res.json({ok: false, error: e.message})
StartVideoMode(missing, msg) ==
  /\ IF missing
       THEN Finish(Fail(200, Err(msg))) /\ UNCHANGED effects
     ELSE IF ~hasSupabase
       THEN Finish(Fail(200, Err("Supabase not configured"))) /\ UNCHANGED effects
     ELSE /\ pc' = "ctx_load"
          /\ effects' = effects \cup {"store_read"}
          /\ UNCHANGED resp
  /\ UNCHANGED <<config, parked, probed, reads, db, req, local, pageOps>>

DebugStart ==
  pc = "debug" /\ StartVideoMode(Falsy(req.body.videoUrl), "Missing videoUrl")
FetchStart ==
  pc = "fetch" /\ StartVideoMode(Falsy(req.body.videoUrl), "Missing videoUrl")
ReplyStart ==
  pc = "reply"
  /\ StartVideoMode(Falsy(req.body.videoUrl) \/ Falsy(req.body.replyText),
                    "Missing videoUrl or replyText")

CtxLoaded ==
  /\ pc = "ctx_load"
  /\ \E reply \in {StoreData(Select(store, CtxPlatform, CtxAccount)), StoreError} :
       LET s == loadSession(hasSupabase, reply)
           seen == effects \cup (IF reply.error THEN {"store_error"} ELSE {})
       IN /\ session' = s
          /\ IF s.threw # ""
               THEN /\ Finish(Fail(200, Err(s.threw)))
                    /\ effects' = seen
                    /\ UNCHANGED cookiesPW
             ELSE IF ~s.found
               THEN /\ Finish(Fail(200, Err("No session in DB for this account/platform")))
                    /\ effects' = seen
                    /\ UNCHANGED cookiesPW
             ELSE /\ cookiesPW' = toPlaywrightCookiesStrict(s.cookies)
                  /\ effects' = seen \cup {"launch"}
                  /\ pc' = "ctx_launch"
                  /\ UNCHANGED resp
  /\ UNCHANGED <<config, parked, probed, reads,
                 db, req, ci, injected, browser, page, sels, clicked,
                 probes, typed, pageOps, replaced>>

CtxLaunch ==
  /\ pc = "ctx_launch"
  /\ \/ browser' = "open" /\ pc' = "ctx_context" /\ UNCHANGED resp
     \/ Finish(Fail(200, Err("launch failed"))) /\ UNCHANGED browser
  /\ UNCHANGED <<config, parked, probed, reads,
                 db, req, session, cookiesPW, ci, injected, page, sels,
                 clicked, probes, typed, pageOps, effects, replaced>>

\* a context step that goes on to the page without seeding the cookies
CtxContext_SkipsInjection ==
  /\ pc = "ctx_context"
  /\ \/ pc' = "ctx_newpage" /\ UNCHANGED resp
     \/ Finish(Fail(200, Err("newContext failed")))
  /\ UNCHANGED <<config, parked, probed, reads, db, req, local, pageOps, effects>>

CtxContext ==
  /\ pc = "ctx_context"
  /\ \/ /\ pc' = IF cookiesPW = <<>> THEN "ctx_newpage" ELSE "ctx_cookie"
        /\ UNCHANGED resp
     \/ Finish(Fail(200, Err("newContext failed")))
  /\ UNCHANGED <<config, parked, probed, reads, db, req, local, pageOps, effects>>

\* new Error(`cookie[${i}] "${ck.name}": ${e.message}`)
CtxCookieError(k) ==
  [msg |-> "cookie rejected", name |-> cookiesPW[k + 1].name, idx |-> <<k>>]

CtxCookie ==
  /\ pc = "ctx_cookie"
  /\ \/ /\ injected' = injected \cup {cookiesPW[ci + 1].name}
        /\ ci' = ci + 1
        /\ pc' = IF ci + 1 = Len(cookiesPW) THEN "ctx_newpage" ELSE "ctx_cookie"
        /\ UNCHANGED <<resp, effects>>
     \/ /\ Finish(Fail(200, CtxCookieError(ci)))
        /\ effects' = effects \cup {"cookie_rejected"}
        /\ UNCHANGED <<injected, ci>>
  /\ UNCHANGED <<config, parked, probed, reads,
                 db, req, session, cookiesPW, browser, page, sels, clicked,
                 probes, typed, pageOps, replaced>>

CtxNewPage ==
  /\ pc = "ctx_newpage"
  /\ \/ pc' = "video_goto" /\ UNCHANGED resp
     \/ Finish(Fail(200, Err("newPage failed")))
  /\ UNCHANGED <<config, parked, probed, reads, db, req, local, pageOps, effects>>

\* page.goto(videoUrl) settles
VideoGoto ==
  /\ pc = "video_goto"
  /\ pageOps' = pageOps \cup {"goto"}
  /\ \/ /\ page' \in Pages
        /\ pc' = "panel_tab"
        /\ UNCHANGED resp
     \/ Finish(Fail(200, Err("goto failed"))) /\ UNCHANGED page
  /\ UNCHANGED <<config, parked, probed, reads,
                 db, req, session, cookiesPW, ci, injected, browser, sels,
                 clicked, probes, typed, effects, replaced>>

\* openCommentsPanel, first half: waitForLoadState, then the first visible
\* comments tab is clicked (a failed click is swallowed)
PanelTab ==
  /\ pc = "panel_tab"
  /\ \/ /\ \E tab \in BOOLEAN :
             pageOps' = pageOps \cup {"query"} \cup (IF tab THEN {"click:tab"} ELSE {})
        /\ pc' = "panel_scroll"
        /\ UNCHANGED resp
     \/ /\ Finish(Fail(200, Err("Timeout")))
        /\ pageOps' = pageOps \cup {"query"}
  /\ UNCHANGED <<config, parked, probed, reads, db, req, local, effects>>

\* openCommentsPanel, second half: the panel is looked up and scrolled, then
\* closeOverlays
PanelScroll ==
  /\ pc = "panel_scroll"
  /\ \/ /\ \E overlay \in BOOLEAN :
             pageOps' = closeOverlays(pageOps \cup {"scroll"}, overlay)
        /\ pc' = "discover"
        /\ UNCHANGED resp
     \/ /\ Finish(Fail(200, Err("count failed")))
        /\ UNCHANGED pageOps
  /\ UNCHANGED <<config, parked, probed, reads, db, req, local, effects>>

Discover ==
  /\ pc = "discover"
  /\ sels' = discoverSelectors(page)
  /\ probed' = discoverProbes(page)
  /\ pageOps' = pageOps \cup {"probe"}
  /\ pc' = CASE ReqMode = "tiktok.debugSelectors" -> "debug_sample"
             [] ReqMode = "tiktok.fetchComments" -> "fetch_items"
             [] OTHER -> "reply_items"
  /\ UNCHANGED <<config, parked, reads, db, req, session, cookiesPW, ci, injected, browser, page,
                 clicked, probes, typed, effects, resp, replaced>>

\* ------------------------------------------- sampling and fetching comments
\* what reading one item's author and text gave: innerText().catch(() => null)
\* is null for a read that failed, else the element's text, which can be
\* empty; without a selector for the sub-field nothing is read (null)
ItemReads(ss) ==
  {[user |-> u, text |-> t] :
     u \in (IF ss.user = Null THEN {Null} ELSE {Null, "", "author"}),
     t \in (IF ss.text = Null THEN {Null} ELSE {Null, "", "text"})}

\* the rows built from the reads of the first `take` items
Rows(got, take) ==
  [k \in 1..take |-> [index |-> k - 1, user |-> got[k].user, text |-> got[k].text]]

\* a batch that leaves out every row whose author could not be read
KeepRow_NeedsUser(r) == ~Falsy(r.user)

\* tiktokFetchComments keeps a row when user || text
KeepRow(r) == ~Falsy(r.user) \/ ~Falsy(r.text)

ReqLimit == IF req.body.limit = <<>> THEN 5 ELSE req.body.limit[1]
ReqCommentIndex == IF req.body.commentIndex = <<>> THEN 0 ELSE req.body.commentIndex[1]

\* tiktok.debugSelectors after discoverSelectors: sampleComments(page, sels, 5),
\* the counts, browser.close, res.json
DebugSample ==
  /\ pc = "debug_sample"
  /\ pageOps' = pageOps \cup {"query"}
  /\ browser' = "closed"
  /\ LET total == IF sels.item = Null THEN 0
                  ELSE CountOr0(CountOf(page, "item", sels.item))
         take == Min(5, total)
     IN \E got \in [1..take -> ItemReads(sels)] :
          Finish(Json(200, [ok |-> TRUE, selectors |-> sels,
                            sample |-> Rows(got, take)]))
  /\ UNCHANGED <<config, parked, probed, reads,
                 db, req, session, cookiesPW, ci, injected, page, sels,
                 clicked, probes, typed, effects, replaced>>

\* tiktok.fetchComments after discoverSelectors
FetchItems ==
  /\ pc = "fetch_items"
  /\ browser' = "closed"
  /\ IF sels.item = Null
       THEN /\ Finish(Json(200, [ok |-> TRUE, count |-> 0, comments |-> <<>>]))
            /\ UNCHANGED <<pageOps, reads>>
       ELSE /\ pageOps' = pageOps \cup {"scroll", "query"}
            /\ \E total \in {0, CountOr0(CountOf(page, "item", sels.item))} :
               LET take == Min(ReqLimit, total) IN
               \E got \in [1..take -> ItemReads(sels)] :
                 LET comments == SelectSeq(Rows(got, take), KeepRow) IN
                 /\ reads' = [total |-> total, rows |-> got]
                 /\ Finish(Json(200, [ok |-> TRUE, count |-> Len(comments),
                                      comments |-> comments]))
  /\ UNCHANGED <<config, parked, probed,
                 db, req, session, cookiesPW, ci, injected, page, sels,
                 clicked, probes, typed, effects, replaced>>

\* ------------------------------------------------------------ tiktok.reply
\* a range check that is off by one at the upper end
OutOfRange_OffByOne(idx, total) == idx < 0 \/ idx > total

\* if (commentIndex < 0 || commentIndex >= total)
OutOfRange(idx, total) == idx < 0 \/ idx >= total

\* after discoverSelectors: the item count and the range check of commentIndex
ReplyItems ==
  /\ pc = "reply_items"
  /\ IF sels.item = Null
       THEN /\ browser' = "closed"
            /\ Finish(Fail(200, Err("No comment items found")))
            /\ UNCHANGED pageOps
       ELSE /\ \E total \in {0, CountOr0(CountOf(page, "item", sels.item))} :
               IF OutOfRange(ReqCommentIndex, total)
               THEN /\ browser' = "closed"
                    /\ Finish(Fail(200, [msg |-> "commentIndex not found", name |-> "",
                                        idx |-> <<ReqCommentIndex>>]))
                    /\ pageOps' = pageOps \cup {"query"}
               ELSE /\ pc' = "reply_button"
                    /\ pageOps' = pageOps \cup {"query", "scroll"}
                    /\ UNCHANGED <<browser, resp>>
  /\ UNCHANGED <<config, parked, probed, reads,
                 db, req, session, cookiesPW, ci, injected, page, sels,
                 clicked, probes, typed, effects, replaced>>

\* the reply control of the target item: counted, and clicked when present
\* (closeOverlays first; a failed click is swallowed)
ReplyButton ==
  /\ pc = "reply_button"
  /\ IF sels.reply = Null
       THEN pc' = "reply_input" /\ UNCHANGED <<clicked, pageOps, resp>>
       ELSE \/ /\ Finish(Fail(200, Err("count failed")))
               /\ pageOps' = pageOps \cup {"query"}
               /\ UNCHANGED clicked
            \/ /\ page.btn = 0
               /\ pc' = "reply_input"
               /\ pageOps' = pageOps \cup {"query"}
               /\ UNCHANGED <<clicked, resp>>
            \/ /\ page.btn > 0
               /\ \E overlay \in BOOLEAN :
                    pageOps' = closeOverlays(pageOps, overlay) \cup {"query", "click:reply"}
               /\ clicked' \in BOOLEAN
               /\ pc' = "reply_input"
               /\ UNCHANGED resp
  /\ UNCHANGED <<config, parked, probed, reads,
                 db, req, session, cookiesPW, ci, injected, browser, page,
                 sels, probes, typed, effects, replaced>>

\* without a clicked reply control the global input is clicked (swallowed on
\* failure); then input.fill, and on its failure focus and keyboard.type
ReplyInput ==
  /\ pc = "reply_input"
  /\ \E overlay \in BOOLEAN, filled \in BOOLEAN, fallback \in BOOLEAN :
       /\ pageOps' =
            (IF clicked THEN pageOps ELSE closeOverlays(pageOps, overlay) \cup {"click:input"})
            \cup {"fill"} \cup (IF filled THEN {} ELSE {"type"})
       /\ typed' = IF filled \/ fallback THEN typed \cup {"entered"} ELSE typed
  /\ pc' = "reply_enter"
  /\ UNCHANGED <<config, parked, probed, reads,
                 db, req, session, cookiesPW, ci, injected, browser, page,
                 sels, clicked, probes, effects, resp, replaced>>

\* closeOverlays, keyboard.press('Enter') (swallowed on failure), the settle
\* delay, browser.close, res.json
ReplyEnter ==
  /\ pc = "reply_enter"
  /\ \E overlay \in BOOLEAN, sent \in BOOLEAN :
       /\ pageOps' = closeOverlays(pageOps, overlay) \cup {"press:Enter"}
       /\ typed' = IF sent THEN typed \cup {"submitted"} ELSE typed
  /\ browser' = "closed"
  /\ Finish(Json(200, [ok |-> TRUE, commentIndex |-> ReqCommentIndex,
                       replyText |-> req.body.replyText]))
  /\ UNCHANGED <<config, parked, probed, reads,
                 db, req, session, cookiesPW, ci, injected, page, sels,
                 clicked, probes, effects, replaced>>

Next ==
  \/ PostSetCookies
  \/ GetHealth
  \/ PostRun
  \/ Over
  \/ Health
  \/ SetCookies
  \/ SetCookiesUpserted
  \/ Run
  \/ SmokeLaunch
  \/ SmokeContext
  \/ SmokeGoto
  \/ SmokeTitle
  \/ CheckStart
  \/ CheckLoaded
  \/ CheckLaunch
  \/ CheckContext
  \/ CheckCookie
  \/ CheckNewPage
  \/ CheckGoto
  \/ CheckProbe
  \/ DebugStart
  \/ FetchStart
  \/ ReplyStart
  \/ CtxLoaded
  \/ CtxLaunch
  \/ CtxContext
  \/ CtxCookie
  \/ CtxNewPage
  \/ VideoGoto
  \/ PanelTab
  \/ PanelScroll
  \/ Discover
  \/ DebugSample
  \/ FetchItems
  \/ ReplyItems
  \/ ReplyButton
  \/ ReplyInput
  \/ ReplyEnter

Spec == Init /\ [][Next]_vars

\* ------------------------------------------------ the translator on its own
\* What a stored cookie array can hold: set-cookies stores any JSON array.
RawNames == {Undefined, Seven, "", "sessionid"}
RawValues == {Undefined, Null, "", "abc", Seven}
RawSameSites ==
  {Undefined, Null, Zero, "lax", "Lax", "LAX", "strict", "Strict",
   "no_restriction", "NO_RESTRICTION", "none", "None", "bogus"}
RawFlags == {Undefined, True, False, "yes"}
RawDates ==
  {NumUndefined, NumNull, NaN, Infinity, Num(0, 0), Neg(Num(0, 5)),
   PlusHalf(Num(0, 0)), PlusHalf(Num(1700000, 500)), Num(E12Thousands, 0),
   PlusHalf(Num(E12Thousands, 0)), Num(E12Thousands, 1), Num(1999999999, 0)}
RawExpiries == {NumUndefined, NumNull, Num(1700000, 0)}
RawScopes == {Undefined, ".tiktok.com"}

RawEntries ==
  {[isNull |-> FALSE, name |-> n, value |-> v, httpOnly |-> IF d = Undefined THEN True ELSE Undefined,
    secure |-> sec, sameSite |-> ss, expirationDate |-> ed, expiry |-> ey,
    domain |-> d, path |-> IF d = Undefined THEN Undefined ELSE "/"] :
     n \in {"sessionid"}, v \in {Null, "abc"}, ss \in RawSameSites,
     sec \in RawFlags, ed \in RawDates, ey \in RawExpiries, d \in RawScopes}

\* entries for the arrays of several elements: valid and invalid ones mixed
MixEntries ==
  {NullEntry} \cup
  {Entry(n, v, "none", False, NumUndefined, NumUndefined) :
     n \in RawNames, v \in RawValues}

RECURSIVE ArraysUpTo(_, _)
ArraysUpTo(S, n) ==
  IF n = 0 THEN {<<>>}
  ELSE LET shorter == ArraysUpTo(S, n - 1) IN
       shorter \cup {Append(a, e) : a \in shorter, e \in S}

RawArrays == {<<e>> : e \in RawEntries} \cup ArraysUpTo(MixEntries, MaxLen)

\* a session was loaded; its cookie array is about to be translated
InitTranslate ==
  /\ hasSupabase = TRUE
  /\ TTK_ACCOUNT = ""
  /\ store = <<>>
  /\ nextId = 1
  /\ lastWrite = [k \in {} |-> 0]
  /\ pc = "translate"
  /\ req = NoReq
  /\ \E raw \in RawArrays : session = [NoSession EXCEPT !.found = TRUE, !.cookies = raw]
  /\ cookiesPW = <<>>
  /\ ci = 0
  /\ injected = {}
  /\ browser = "none"
  /\ page = NoPage
  /\ sels = NoSels
  /\ clicked = FALSE
  /\ probes = NoProbes
  /\ typed = {}
  /\ pageOps = {}
  /\ effects = {}
  /\ replaced = NoSession
  /\ resp = <<>>
  /\ probed = NoProbed
  /\ reads = NoReads
  /\ parked = IdleContext

\* const cookiesPW = toPlaywrightCookiesStrict(session.cookies)
Translate ==
  /\ pc = "translate"
  /\ cookiesPW' = toPlaywrightCookiesStrict(session.cookies)
  /\ pc' = "translated"
  /\ UNCHANGED <<config, parked, probed, reads,
                 db, req, session, ci, injected, browser, page, sels,
                 clicked, probes, typed, pageOps, effects, replaced, resp>>

NextTranslate == Translate

SpecTranslate == InitTranslate /\ [][NextTranslate]_vars

\* ------------------------------------------- selector discovery on its own
\* what one count probe can give: a rejection, no match, matches
ProbeResults == {-1, 0, MaxItems}
RECURSIVE CountVectors(_)
CountVectors(n) ==
  IF n = 0 THEN {<<>>}
  ELSE {Append(v, c) : v \in CountVectors(n - 1), c \in ProbeResults}
\* every outcome of the item probes, with every outcome of the probes of a
\* five-candidate target
ProbedPages ==
  {[item |-> i, user |-> u, text |-> u, reply |-> u, btn |-> 0] :
     i \in CountVectors(Len(candidates.item)), u \in CountVectors(Len(candidates.user))}

\* tiktok.fetchComments has opened the comments panel of some page
InitDiscover ==
  /\ hasSupabase = TRUE
  /\ TTK_ACCOUNT = "alice"
  /\ store = <<>>
  /\ nextId = 1
  /\ lastWrite = [k \in {} |-> 0]
  /\ pc = "discover"
  /\ req = [NoReq EXCEPT !.endpoint = "/run", !.body.mode = "tiktok.fetchComments",
                         !.body.videoUrl = "https://www.tiktok.com/@u/video/1"]
  /\ session = [NoSession EXCEPT !.found = TRUE]
  /\ cookiesPW = <<>>
  /\ ci = 0
  /\ injected = {}
  /\ browser = "open"
  /\ page \in ProbedPages
  /\ sels = NoSels
  /\ clicked = FALSE
  /\ probes = NoProbes
  /\ typed = {}
  /\ pageOps = {"goto", "query", "scroll"}
  /\ effects = {"store_read", "launch"}
  /\ replaced = NoSession
  /\ resp = <<>>
  /\ probed = NoProbed
  /\ reads = NoReads
  /\ parked = IdleContext

NextDiscover == Discover

SpecDiscover == InitDiscover /\ [][NextDiscover]_vars

\* ------------------------------------------------- two requests in flight
\* Handlers are async functions: at each await the event loop may run a step
\* of another request's handler.  Every variable of a handler is a local of
\* its invocation; the module-level bindings are constants and the store is
\* external.  One invocation runs, the other is parked with its locals.

\* an event loop under which the browser handle is one module-level variable
Switch_SharedBrowser ==
  /\ parked # Running
  /\ parked' = Running
  /\ pc' = parked.pc
  /\ req' = parked.req
  /\ session' = parked.session
  /\ cookiesPW' = parked.cookiesPW
  /\ ci' = parked.ci
  /\ injected' = parked.injected
  /\ page' = parked.page
  /\ sels' = parked.sels
  /\ clicked' = parked.clicked
  /\ probes' = parked.probes
  /\ typed' = parked.typed
  /\ pageOps' = parked.pageOps
  /\ effects' = parked.effects
  /\ replaced' = parked.replaced
  /\ resp' = parked.resp
  /\ probed' = parked.probed
  /\ reads' = parked.reads
  /\ UNCHANGED <<hasSupabase, TTK_ACCOUNT, db, browser>>

\* the running handler is suspended at its await and the other one resumes
Switch ==
  /\ parked # Running
  /\ parked' = Running
  /\ pc' = parked.pc
  /\ req' = parked.req
  /\ session' = parked.session
  /\ cookiesPW' = parked.cookiesPW
  /\ ci' = parked.ci
  /\ injected' = parked.injected
  /\ browser' = parked.browser
  /\ page' = parked.page
  /\ sels' = parked.sels
  /\ clicked' = parked.clicked
  /\ probes' = parked.probes
  /\ typed' = parked.typed
  /\ pageOps' = parked.pageOps
  /\ effects' = parked.effects
  /\ replaced' = parked.replaced
  /\ resp' = parked.resp
  /\ probed' = parked.probed
  /\ reads' = parked.reads
  /\ UNCHANGED <<hasSupabase, TTK_ACCOUNT, db>>

\* the record a set-cookies request left in the table before the two arrive
StoredRow ==
  [id |-> 1, platform |-> "tiktok", account |-> "alice", cookies |-> CookiesMixed,
   user_agent |-> "UA"]

InitConcurrent ==
  /\ hasSupabase = TRUE
  /\ TTK_ACCOUNT = "alice"
  /\ store = <<StoredRow>>
  /\ nextId = 2
  /\ lastWrite = [k \in {RowKey(StoredRow)} |-> StoredRow]
  /\ pc = "idle"
  /\ req = NoReq
  /\ session = NoSession
  /\ cookiesPW = <<>>
  /\ ci = 0
  /\ injected = {}
  /\ browser = "none"
  /\ page = NoPage
  /\ sels = NoSels
  /\ clicked = FALSE
  /\ probes = NoProbes
  /\ typed = {}
  /\ pageOps = {}
  /\ effects = {}
  /\ replaced = NoSession
  /\ resp = <<>>
  /\ probed = NoProbed
  /\ reads = NoReads
  /\ parked = IdleContext

\* POST /auth/set-cookies for the default account
ConcPostSetCookies ==
  \E l \in CookieArrays :
    /\ Arrive([endpoint |-> "/auth/set-cookies", ua_header |-> Undefined,
               body |-> [NoBody EXCEPT !.cookies = ArrayOf(l)]])
    /\ pc' = "set_cookies"

\* POST /run for the default account
ConcPostRun ==
  \E m \in {"tiktok.check", "tiktok.fetchComments"} :
    /\ Arrive([NoReq EXCEPT !.endpoint = "/run", !.body.mode = m,
                            !.body.videoUrl = "https://www.tiktok.com/@u/video/1",
                            !.body.limit = <<1>>])
    /\ pc' = "run"

NextConcurrent ==
  \/ ConcPostSetCookies
  \/ ConcPostRun
  \/ Switch
  \/ SetCookies
  \/ SetCookiesUpserted
  \/ Run
  \/ CheckStart
  \/ CheckLoaded
  \/ CheckLaunch
  \/ CheckContext
  \/ CheckCookie
  \/ CheckNewPage
  \/ CheckGoto
  \/ CheckProbe
  \/ FetchStart
  \/ CtxLoaded
  \/ CtxLaunch
  \/ CtxContext
  \/ CtxCookie
  \/ CtxNewPage
  \/ VideoGoto
  \/ PanelTab
  \/ PanelScroll
  \/ Discover
  \/ FetchItems

SpecConcurrent == InitConcurrent /\ [][NextConcurrent]_vars

\* ================================================================ properties
Done == pc = "done"
IsRun(m) == req.endpoint = "/run" /\ ReqMode = m
SessionModes ==
  {"tiktok.check", "tiktok.debugSelectors", "tiktok.fetchComments", "tiktok.reply"}
VideoModes == {"tiktok.debugSelectors", "tiktok.fetchComments", "tiktok.reply"}
InSessionMode == req.endpoint = "/run" /\ ReqMode \in SessionModes
InVideoMode == req.endpoint = "/run" /\ ReqMode \in VideoModes

\* exactly one JSON response, and it says ok = b
Answered(b) == Len(resp) = 1 /\ resp[1].json /\ resp[1].body.ok = b

\* the key the request in flight reads the store with
ReadKey ==
  IF ReqMode = "tiktok.check" THEN Key(ReqPlatformLower, ReqAccountOr)
  ELSE Key(CtxPlatform, CtxAccount)

\* the store has answered this request's read
ReadAnswered == "store_read" \in effects /\ pc \notin {"check_load", "ctx_load"}

\* ----------------------------------------------------------------------- C1
\* C1: whenever a handler that launched a browser has finished, on any exit
\* path, that browser is closed.
C1_BrowserClosedOnExit == Done => browser # "open"

\* ----------------------------------------------------------------------- C2
\* C2: every key that was upserted holds exactly one row, loadSession returns
\* for it the cookies and user_agent of its last upsert in full, and keys
\* never upserted hold no row.
C2_UpsertReplaces ==
  /\ \A n \in 1..Len(store) : RowKey(store[n]) \in DOMAIN lastWrite
  /\ \A k \in DOMAIN lastWrite :
       /\ Cardinality(RowIndex(store, k)) = 1
       /\ loadSession(TRUE, StoreData(Select(store, k[1], k[2]))) =
            [threw |-> "", found |-> TRUE, cookies |-> lastWrite[k].cookies,
             user_agent |-> lastWrite[k].user_agent]

\* a second upsert of a key replaced a record with a user agent by one
\* without, while another key holds its own record
C2_Witness ==
  /\ Done /\ req.endpoint = "/auth/set-cookies" /\ Answered(TRUE)
  /\ replaced.found /\ replaced.user_agent = "UA"
  /\ replaced.cookies = CookiesMixed
  /\ lastWrite[Key(ReqPlatformLower, ReqAccountOr)].user_agent = Null
  /\ lastWrite[Key(ReqPlatformLower, ReqAccountOr)].cookies = CookiesEmpty
  /\ Len(store) = 2

\* ----------------------------------------------------------------------- C3
\* C3: every finished POST /run and POST /auth/set-cookies request got exactly
\* one JSON response with a boolean ok.
C3_EveryRequestAnswered ==
  (Done /\ req.endpoint \in {"/run", "/auth/set-cookies"}) =>
    (Len(resp) = 1 /\ resp[1].json /\ resp[1].body.ok \in BOOLEAN)

\* ----------------------------------------------------------------------- C4
\* C4: a read of a key without a row, answered without a store error, makes
\* loadSession return null without throwing (the handler answers "No session"
\* and launches nothing); loadSession throws only on a store error.
C4_MissIsNull ==
  /\ (ReadAnswered /\ "store_error" \notin effects /\ RowIndex(store, ReadKey) = {}) =>
       /\ session = NoSession
       /\ Answered(FALSE)
       /\ resp[1].body.error.msg = "No session in DB for this account/platform"
       /\ "launch" \notin effects
  /\ (session.threw # "") => "store_error" \in effects

\* a read missed while the store holds a record under another key
C4_Witness ==
  /\ Done /\ InSessionMode /\ ReadAnswered /\ "store_error" \notin effects
  /\ RowIndex(store, ReadKey) = {}
  /\ Len(store) > 0
  /\ session = NoSession

\* ----------------------------------------------------------------------- C5
\* the number of items the discovered item selector matches
ItemTotal == IF sels.item = Null THEN 0 ELSE CountOr0(CountOf(page, "item", sels.item))
Interactions ==
  {"click:tab", "click:reply", "click:input", "fill", "type", "press:Escape",
   "press:Enter"}
ReplyOutOfRange ==
  /\ Done /\ IsRun("tiktok.reply") /\ "probe" \in pageOps
  /\ (ReqCommentIndex < 0 \/ ReqCommentIndex >= ItemTotal)

\* C5 as stated: a reply whose commentIndex is negative or at least the number
\* of discovered items answers ok=false naming the index, and the request
\* attempted no click, fill or key press at all.
C5_Original ==
  ReplyOutOfRange =>
    /\ Answered(FALSE)
    /\ resp[1].body.error.idx = <<ReqCommentIndex>>
    /\ pageOps \cap Interactions = {}

\* C5 amended: such a reply answers ok=false and closes the browser; with an
\* item selector found and the panel's item lookup answered the error names
\* the index, without one it says no items were found; the only interactions
\* of the request are openCommentsPanel's tab click and Escape.
C5_OutOfRangeReply ==
  ReplyOutOfRange =>
    /\ Answered(FALSE)
    /\ browser = "closed"
    /\ IF sels.item = Null
         THEN resp[1].body.error.msg = "No comment items found"
         ELSE /\ resp[1].body.error.msg = "commentIndex not found"
              /\ resp[1].body.error.idx = <<ReqCommentIndex>>
    /\ pageOps \cap Interactions \subseteq {"click:tab", "press:Escape"}

\* an index equal to the item count was refused after the tab was clicked
C5_Witness ==
  /\ ReplyOutOfRange
  /\ sels.item # Null
  /\ ReqCommentIndex = ItemTotal
  /\ "click:tab" \in pageOps
  /\ resp[1].body.error.idx = <<ReqCommentIndex>>

\* ----------------------------------------------------------------------- C6
\* C6: in a session-dependent mode a rejected cookie gives ok=false with the
\* name of that cookie in the error, no later cookie is injected and nothing
\* is done on a page.
C6_RejectedCookieNamed ==
  (Done /\ InSessionMode /\ "cookie_rejected" \in effects) =>
    /\ Answered(FALSE)
    /\ resp[1].body.error.name = cookiesPW[ci + 1].name
    /\ injected = {cookiesPW[k].name : k \in 1..ci}
    /\ pageOps = {}

\* ----------------------------------------------------------------------- C7
MissingRequired ==
  \/ /\ req.endpoint = "/auth/set-cookies"
     /\ (~req.body.cookies.isArray \/ Falsy(ReqAccountOr))
  \/ IsRun("tiktok.check") /\ Falsy(ReqAccountOr)
  \/ IsRun("tiktok.debugSelectors") /\ Falsy(req.body.videoUrl)
  \/ IsRun("tiktok.fetchComments") /\ Falsy(req.body.videoUrl)
  \/ IsRun("tiktok.reply") /\ (Falsy(req.body.videoUrl) \/ Falsy(req.body.replyText))

\* C7: a request missing a required field gets a client-error (4xx) response
\* with ok=false, and touched neither the store nor a browser.
C7_ValidationIsClientError ==
  (Done /\ MissingRequired) =>
    /\ Answered(FALSE)
    /\ resp[1].status \in 400..499
    /\ effects = {}

\* ----------------------------------------------------------------------- C8
\* C8: a reply answers ok=true only when the text was entered and submitted.
C8_ReplyOkMeansSubmitted ==
  (Done /\ IsRun("tiktok.reply") /\ Answered(TRUE)) =>
    typed = {"entered", "submitted"}

\* ----------------------------------------------------------------------- C9
\* C9: a session-dependent mode finds the record that POST /auth/set-cookies
\* stored for the same platform and account, whatever the platform's case.
C9_SameKeyAnyCase ==
  (InSessionMode /\ ReadAnswered /\ "store_error" \notin effects
     /\ RowIndex(store, Key(ReqPlatformLower, ReqAccountOr)) # {}) =>
    session.found

\* ---------------------------------------------------------------------- C10
CheckOfEmptySession ==
  /\ Done /\ IsRun("tiktok.check")
  /\ session.found /\ session.cookies = <<>>

\* C10 as stated: with an empty stored cookie array tiktok.check completes and
\* answers ok=true, loggedIn=false, cookiesCount=0 whatever the probes see.
C10_Original ==
  CheckOfEmptySession =>
    /\ Answered(TRUE)
    /\ resp[1].body.loggedIn = FALSE
    /\ resp[1].body.cookiesCount = 0
    /\ browser = "closed"

\* C10 amended: nothing is injected; when launch, context, page and navigation
\* succeed the browser is closed and the answer is ok=true, cookiesCount=0 and
\* loggedIn = (the avatar probe saw an avatar), whatever the login-button
\* probe saw; otherwise the answer is ok=false.
C10_EmptySessionCheck ==
  CheckOfEmptySession =>
    /\ injected = {}
    /\ IF "query" \in pageOps
         THEN /\ Answered(TRUE)
              /\ resp[1].body.cookiesCount = 0
              /\ resp[1].body.loggedIn = probes.avatar
              /\ browser = "closed"
         ELSE Answered(FALSE)

\* the check completed without an avatar while the login button was hidden
C10_Witness ==
  /\ CheckOfEmptySession
  /\ Answered(TRUE)
  /\ ~probes.avatar /\ ~probes.loginBtn
  /\ resp[1].body.loggedIn = FALSE

\* ------------------------------------------------- translator: C11 .. C15
Translated == pc = "translated"
RawIn == session.cookies
\* the entries the contract keeps: an object with a non-empty string name and
\* a value that is not undefined
ValidIdx ==
  {i \in 1..Len(RawIn) :
     /\ ~RawIn[i].isNull
     /\ RawIn[i].name \in {"sessionid"}
     /\ RawIn[i].value \in {Null, "", "abc", Seven}}
\* the input entry behind the k-th output cookie
Src(k) == RawIn[CHOOSE i \in ValidIdx : Cardinality({j \in ValidIdx : j <= i}) = k]
SameLength == Len(cookiesPW) = Cardinality(ValidIdx)
NoneSpellings == {"no_restriction", "NO_RESTRICTION", "none", "None"}
LaxSpellings == {"lax", "Lax", "LAX"}
StrictSpellings == {"strict", "Strict"}
Has(o, f) == f \in DOMAIN o

\* ---------------------------------------------------------------------- C11
\* C11: a kept entry whose sameSite is a spelling of no_restriction or none
\* is translated with secure = true whatever its own secure; any other kept
\* entry is translated with secure = the boolean coercion of its secure.
C11_SecureForcedForNone ==
  Translated =>
    /\ SameLength
    /\ \A k \in 1..Len(cookiesPW) :
         cookiesPW[k].secure =
           (IF Src(k).sameSite \in NoneSpellings THEN TRUE
            ELSE Src(k).secure \in {True, "yes"})

\* a cross-site cookie exported with secure false came out secure
C11_Witness ==
  /\ Translated
  /\ Len(RawIn) = 1 /\ Len(cookiesPW) = 1
  /\ RawIn[1].sameSite = "NO_RESTRICTION"
  /\ RawIn[1].secure = False
  /\ cookiesPW[1].secure = TRUE

\* ---------------------------------------------------------------------- C12
\* C12: the output has one cookie per valid entry, in input order (the k-th
\* cookie carries the name and the stringified value of the k-th valid
\* entry); null elements, entries without a non-empty string name and
\* entries with an undefined value give none.
C12_DropsExactlyInvalid ==
  Translated =>
    /\ SameLength
    /\ \A k \in 1..Len(cookiesPW) :
         /\ cookiesPW[k].name = Src(k).name
         /\ cookiesPW[k].value =
              (CASE Src(k).value = Null -> ""
                 [] Src(k).value = Seven -> "7"
                 [] OTHER -> Src(k).value)

\* of three elements the null one and the nameless one were dropped and the
\* one with a null value was kept
C12_Witness ==
  /\ Translated
  /\ Len(RawIn) = 3
  /\ RawIn[1].isNull
  /\ ~RawIn[2].isNull /\ RawIn[2].name = "sessionid" /\ RawIn[2].value = Null
  /\ ~RawIn[3].isNull /\ RawIn[3].name = Undefined /\ RawIn[3].value = "abc"
  /\ Len(cookiesPW) = 1
  /\ cookiesPW[1].value = ""

\* ---------------------------------------------------------------------- C13
\* the number the contract tests: expirationDate, or expiry when
\* expirationDate is one of the kinds in absent; undefined counts as NaN and
\* null as 0
ExpOf(c, absent) ==
  LET x == IF c.expirationDate.k \in absent THEN c.expiry ELSE c.expirationDate IN
  CASE x.k = "undefined" -> NaN
    [] x.k = "null" -> Num(0, 0)
    [] OTHER -> x
\* what the contract says of expires for the number x
ExpiresAsStated(o, x) ==
  IF x.k # "num" \/ x.neg \/ (x.q = 0 /\ x.r = 0 /\ ~x.half)
  THEN ~Has(o, "expires")
  ELSE /\ Has(o, "expires")
       /\ o.expires =
            (IF x.q > E12Thousands \/ (x.q = E12Thousands /\ (x.r > 0 \/ x.half))
             THEN Num(x.q \div 1000, x.q % 1000)
             ELSE Num(x.q, x.r))

\* C13 as stated: expiry is consulted only when expirationDate is absent
\* (undefined); a null expirationDate counts as the number 0.
C13_Original ==
  Translated =>
    /\ SameLength
    /\ \A k \in 1..Len(cookiesPW) :
         ExpiresAsStated(cookiesPW[k], ExpOf(Src(k), {"undefined"}))

\* C13 amended: exp is the numeric value of expirationDate, or of expiry when
\* expirationDate is absent or null; above 1e12 expires = floor(exp / 1000),
\* from above 0 up to 1e12 expires = floor(exp), and for exp <= 0 or not
\* finite there is no expires field.
C13_ExpiresRule ==
  Translated =>
    /\ SameLength
    /\ \A k \in 1..Len(cookiesPW) :
         ExpiresAsStated(cookiesPW[k], ExpOf(Src(k), {"undefined", "null"}))

\* exactly 1e12 was kept as seconds and 1e12 + 1 was divided
C13_Witness ==
  /\ Translated
  /\ Len(RawIn) = 1 /\ Len(cookiesPW) = 1
  /\ \/ /\ RawIn[1].expirationDate = Num(E12Thousands, 0)
        /\ cookiesPW[1].expires = Num(E12Thousands, 0)
     \/ /\ RawIn[1].expirationDate = Num(E12Thousands, 1)
        /\ cookiesPW[1].expires = Num(E12Thousands \div 1000, 0)

\* ---------------------------------------------------------------------- C14
\* the export of the end-to-end example
ExportExample ==
  [isNull |-> FALSE, name |-> "sessionid", value |-> "abc", httpOnly |-> True,
   secure |-> Undefined, sameSite |-> "no_restriction",
   expirationDate |-> Num(1999999999, 0), expiry |-> NumUndefined,
   domain |-> Undefined, path |-> Undefined]

\* C14: sameSite is "Lax" for a spelling of lax, "Strict" for one of strict,
\* "None" for one of no_restriction or none, and the cookie has no sameSite
\* attribute for anything else; the example export gives exactly one cookie
\* with sameSite "None", secure true and expires 1999999999.
C14_SameSiteMapping ==
  Translated =>
    /\ SameLength
    /\ \A k \in 1..Len(cookiesPW) :
         LET v == Src(k).sameSite
             o == cookiesPW[k]
         IN CASE v \in LaxSpellings -> Has(o, "sameSite") /\ o.sameSite = "Lax"
              [] v \in StrictSpellings -> Has(o, "sameSite") /\ o.sameSite = "Strict"
              [] v \in NoneSpellings -> Has(o, "sameSite") /\ o.sameSite = "None"
              [] OTHER -> ~Has(o, "sameSite")
    /\ RawIn = <<ExportExample>> =>
         /\ Len(cookiesPW) = 1
         /\ Has(cookiesPW[1], "sameSite") /\ cookiesPW[1].sameSite = "None"
         /\ cookiesPW[1].secure = TRUE
         /\ Has(cookiesPW[1], "expires")
         /\ cookiesPW[1].expires = Num(1999999, 999)

\* the example export was translated
C14_Witness ==
  /\ Translated
  /\ RawIn = <<ExportExample>>
  /\ Len(cookiesPW) = 1
  /\ cookiesPW[1].sameSite = "None"

\* ---------------------------------------------------------------------- C15
\* C15: every translated cookie has name, a string value, url = the base
\* URL, boolean httpOnly and boolean secure, and has no domain and no path,
\* whatever the entry had.
C15_AnchoredToBaseUrl ==
  Translated =>
    \A k \in 1..Len(cookiesPW) :
      LET o == cookiesPW[k] IN
      /\ {"name", "value", "url", "httpOnly", "secure"} \subseteq DOMAIN o
      /\ ~Has(o, "domain") /\ ~Has(o, "path")
      /\ o.name = "sessionid"
      /\ o.value \in {"", "abc", "7"}
      /\ o.url = "https://www.tiktok.com/"
      /\ o.httpOnly \in BOOLEAN
      /\ o.secure \in BOOLEAN

\* an entry exported with a domain and a path was translated
C15_Witness ==
  /\ Translated
  /\ Len(RawIn) = 1 /\ Len(cookiesPW) = 1
  /\ RawIn[1].domain = ".tiktok.com" /\ RawIn[1].path = "/"
  /\ cookiesPW[1].url = TTK_BASE_URL

\* ---------------------------------------------------------------------- C16
\* the store refused the write of the request in flight
StoreRefusedWrite ==
  /\ req.endpoint = "/auth/set-cookies"
  /\ Len(resp) = 1 /\ resp[1].json /\ ~resp[1].body.ok
  /\ resp[1].body.error.msg = "store error"

\* C16: a set-cookies request that ends while the store is not configured or
\* with cookies that are not an array is answered ok=false without any write
\* issued to the store; one whose write the store refused is answered
\* ok=false; in all three cases the table is as it was before.
C16_FailedUpsertWritesNothing ==
  [][(/\ req.endpoint = "/auth/set-cookies"
      /\ pc # "done" /\ pc' = "done"
      /\ (~hasSupabase \/ ~req.body.cookies.isArray \/ StoreRefusedWrite'))
     => (/\ store' = store
         /\ Answered(FALSE)'
         /\ (~hasSupabase \/ ~req.body.cookies.isArray) =>
               "store_write" \notin effects')]_vars

\* the store refused a write while it held a record, which is still there
C16_Witness ==
  /\ Done /\ StoreRefusedWrite
  /\ Len(store) = 1
  /\ store[1].cookies = CookiesMixed
  /\ req.body.cookies = ArrayOf(CookiesEmpty)
  /\ RowKey(store[1]) = Key(ReqPlatformLower, ReqAccountOr)

\* ---------------------------------------------------------------------- C17
HasRecord(rows, k) == RowIndex(rows, k) # {}
StoredKeys(rows) == {RowKey(rows[n]) : n \in 1..Len(rows)}

\* C17: no step removes the record of a key; the table changes only in the
\* upsert step of POST /auth/set-cookies, so every step of a /run mode and
\* of /health leaves it as it is.
C17_NoRecordDeleted ==
  [][/\ \A k \in StoredKeys(store) : HasRecord(store', k)
     /\ store' # store =>
          (req.endpoint = "/auth/set-cookies" /\ pc = "set_cookies_upsert")
     /\ req.endpoint \in {"/run", "/health"} => store' = store]_vars

\* a reply ran to its end against a table of two records
C17_Witness ==
  /\ Done /\ IsRun("tiktok.reply") /\ Answered(TRUE)
  /\ session.found
  /\ Cardinality(StoredKeys(store)) = 2

\* ---------------------------------------------------------------------- C18
OkBody(c) == c.pc = "done" /\ Len(c.resp) = 1 /\ c.resp[1].json /\ c.resp[1].body.ok
\* what an invocation holds comes from its own request, its own store read
\* and the browser and page it launched
OwnOnly(c) ==
  /\ c.browser # "none" => "launch" \in c.effects
  /\ c.pageOps # {} => c.browser # "none"
  /\ c.injected \subseteq {c.cookiesPW[k].name : k \in 1..Len(c.cookiesPW)}
  /\ c.session.found => c.cookiesPW = toPlaywrightCookiesStrict(c.session.cookies)
  /\ (OkBody(c) /\ c.req.endpoint = "/auth/set-cookies") =>
       c.resp[1].body.saved = Len(c.req.body.cookies.items)
  /\ (OkBody(c) /\ c.req.body.mode = "tiktok.check") =>
       /\ c.resp[1].body.cookiesCount = Len(c.cookiesPW)
       /\ c.resp[1].body.loggedIn =
            LoggedIn(c.probes.avatar, c.probes.loginBtn, c.session.cookies)
  /\ (OkBody(c) /\ c.req.body.mode = "tiktok.fetchComments") =>
       c.resp[1].body.count <=
         (IF c.sels.item = Null THEN 0
          ELSE CountOr0(CountOf(c.page, "item", c.sels.item)))

\* C18: with two requests interleaved at their awaits, a step of one handler
\* leaves every local of the other untouched, the switch between them
\* changes neither the table nor any local, the table changes only in a
\* set-cookies upsert, a session is the answer of the store as it was at the
\* read, and each request's browser, cookies, page operations and response
\* come from its own launch, its own session and its own page.
C18_RequestsIsolated ==
  /\ [](OwnOnly(Running) /\ OwnOnly(parked))
  /\ [][IF parked' # parked
          THEN parked' = Running /\ Running' = parked /\ UNCHANGED <<config, db>>
          ELSE /\ store' # store => pc = "set_cookies_upsert"
               /\ session' # session =>
                    /\ pc \in {"check_load", "ctx_load"}
                    /\ session' \in
                         {loadSession(hasSupabase,
                                      StoreData(Select(store, ReadKey[1], ReadKey[2]))),
                          loadSession(hasSupabase, StoreError)}]_vars

\* one request closed its browser and answered while the other one, parked
\* in the middle of its page work, still has its own browser open
C18_Witness ==
  /\ Done /\ IsRun("tiktok.check") /\ Answered(TRUE) /\ browser = "closed"
  /\ parked.pc = "fetch_items" /\ parked.browser = "open"
  /\ session.found /\ parked.session.found
  /\ parked.injected # {}

\* ---------------------------------------------------------------------- C19
Discovered == pc # "discover" /\ "probe" \in pageOps
Targets == {"item", "user", "text", "reply"}
\* the positions of the candidates of target t that match on the page
Matching(t) == {k \in 1..Len(candidates[t]) : page[t][k] > 0}
Earliest(S) == CHOOSE m \in S : \A k \in S : m <= k

\* C19: for each target the selector returned is the earliest candidate with
\* a positive count, the candidates probed are the list up to and including
\* that one, a rejected count probe counts as no match, and the result is
\* null, with every candidate probed, exactly when no candidate matches.
C19_FirstWorkingCandidate ==
  Discovered =>
    \A t \in Targets :
      IF Matching(t) = {}
      THEN sels[t] = Null /\ probed[t] = candidates[t]
      ELSE /\ sels[t] = candidates[t][Earliest(Matching(t))]
           /\ probed[t] = SubSeq(candidates[t], 1, Earliest(Matching(t)))

\* the item probes gave a rejection, no match, then two matches: the third
\* candidate was returned and the fourth was not probed
C19_Witness ==
  /\ Discovered
  /\ page.item = <<-1, 0, MaxItems, MaxItems>>
  /\ sels.item = candidates.item[3]
  /\ Len(probed.item) = 3
  /\ sels.user = Null

\* ---------------------------------------------------------------------- C20
\* C20: in a session-dependent mode a browser is launched only after the
\* store, being configured, returned a record for the key and its cookies
\* were translated; the cookies accepted so far are the first ci translated
\* ones, in order, injected into that browser's context; a navigation was
\* started only after all of them were accepted; every other page operation
\* came after the navigation; and a response is the last step.
C20_StepsInOrder ==
  InSessionMode =>
    /\ ("launch" \in effects \/ browser # "none") =>
         /\ hasSupabase
         /\ "store_read" \in effects /\ "store_error" \notin effects
         /\ session.found
         /\ cookiesPW = toPlaywrightCookiesStrict(session.cookies)
    /\ browser # "none" => "launch" \in effects
    /\ ci \in 0..Len(cookiesPW)
    /\ injected = {cookiesPW[k].name : k \in 1..ci}
    /\ ci > 0 => browser # "none"
    /\ "cookie_rejected" \in effects => (Done /\ ci < Len(cookiesPW) /\ pageOps = {})
    /\ pageOps # {} =>
         /\ "goto" \in pageOps
         /\ browser # "none"
         /\ ci = Len(cookiesPW)
    /\ resp # <<>> => Done

\* a reply was submitted after both stored cookies were injected
C20_Witness ==
  /\ Done /\ IsRun("tiktok.reply") /\ Answered(TRUE)
  /\ ci = 2 /\ Len(cookiesPW) = 2
  /\ "press:Enter" \in pageOps

\* ---------------------------------------------------------------------- C21
FetchOk == Done /\ IsRun("tiktok.fetchComments") /\ Answered(TRUE)
\* the positions, from 0, of the items read whose author or text is a
\* non-empty string
WorthKeeping ==
  {k - 1 : k \in {n \in 1..Len(reads.rows) :
                    \/ reads.rows[n].user \notin {Null, ""}
                    \/ reads.rows[n].text \notin {Null, ""}}}

====
